---- MODULE Spec2Model ----
(***************************************************************************)
(* Model of package tcplisten (xenking/tcplisten): the construction of a   *)
(* TCP listener by NewListener.  A call resolves the address, creates a    *)
(* raw socket, applies the socket options in a fixed order, binds,         *)
(* listens and hands the descriptor to net.FileListener.  The operating    *)
(* system (descriptor table, sockets, port namespace) is part of the       *)
(* state; every system call may fail.                                      *)
(***************************************************************************)
EXTENDS Integers, Sequences, FiniteSets, TLC

\* ---------------------------------------------------------------- bounds
NCalls == 2          \* call frames that may exist
MaxFd == 3           \* size of the process's descriptor table (RLIMIT_NOFILE)
MaxCalls == 2        \* calls the caller makes in a run

\* ------------------------------------------------------- program constants
SOMAXCONN == 128

Calls == 1..NCalls
Fds == 1..MaxFd
Platforms == {"linux", "bsd", "windows"}

\* ------------------------------------------------------------ input values
Networks == {"tcp", "tcp4", "tcp6", "udp", "unix"}
Addrs == {"127.0.0.1:80", "[::1]:80", "[fe80::1%nope]:80", "nohost:80",
          "/tmp/s.sock"}
\* Config.Backlog: negative, the default 0, and an explicit queue length.
Backlogs == {-1, 0, 17}

Config == [ReusePort : BOOLEAN, DeferAccept : BOOLEAN, FastOpen : BOOLEAN,
           NoDelay : BOOLEAN, QuickACK : BOOLEAN, Backlog : Backlogs]

\* ------------------------------------------------------------------ errors
\* kind is the stage that failed, name what the message names (the option,
\* the address), cause the underlying system error.
NoErr == [kind |-> "nil", name |-> "", cause |-> ""]
ErrorCause(k, n, cause) == [kind |-> k, name |-> n, cause |-> cause]
Error(k, n) == ErrorCause(k, n, "")

\* --------------------------------------------------------------- IP values
\* An IP is a tuple of bytes, 4 or 16 long; <<>> is the nil slice.
Zeros(n) == [i \in 1..n |-> 0]
v4InV6Prefix == Zeros(10) \o <<255, 255>>

\* net.IP.To4: the 4-byte form of an IPv4 or IPv4-mapped address, else nil.
To4(ip) ==
    IF Len(ip) = 4 THEN ip
    ELSE IF Len(ip) = 16 /\ SubSeq(ip, 1, 12) = v4InV6Prefix
         THEN SubSeq(ip, 13, 16)
         ELSE <<>>

\* net.IP.To16: the 16-byte form, else nil.
To16(ip) ==
    IF Len(ip) = 4 THEN v4InV6Prefix \o ip
    ELSE IF Len(ip) = 16 THEN ip
         ELSE <<>>

\* Go's builtin copy(dst, src): overwrites the first min(len) elements.
copy(dst, src) ==
    [i \in 1..Len(dst) |-> IF i <= Len(src) THEN src[i] ELSE dst[i]]

\* --------------------------------------------------- address resolution
NoTCPAddr == [IP |-> <<>>, Port |-> 0, Zone |-> ""]

\* What the resolver reads out of each address string (host, port, zone).
ParseAddr(addr) ==
    CASE addr = "127.0.0.1:80" ->
           [ok |-> TRUE, IP |-> <<127, 0, 0, 1>>, Port |-> 80, Zone |-> ""]
      [] addr = "[::1]:80" ->
           [ok |-> TRUE, IP |-> Zeros(15) \o <<1>>, Port |-> 80, Zone |-> ""]
      [] addr = "[fe80::1%nope]:80" ->
           [ok |-> TRUE, IP |-> <<254, 128>> \o Zeros(13) \o <<1>>, Port |-> 80,
            Zone |-> "nope"]
      [] OTHER ->
           [ok |-> FALSE, IP |-> <<>>, Port |-> 0, Zone |-> ""]

\* net.ResolveTCPAddr: the parsed address, kept only if it suits the network
\* (tcp4 wants an address with a 4-byte form, tcp6 one without).
ResolveTCPAddr(network, addr) ==
    LET p == ParseAddr(addr)
        suits == CASE network = "tcp4" -> To4(p.IP) # <<>>
                   [] network = "tcp6" -> Len(p.IP) = 16 /\ To4(p.IP) = <<>>
                   [] OTHER -> TRUE
    IN IF p.ok /\ suits
       THEN [tcpAddr |-> [IP |-> p.IP, Port |-> p.Port, Zone |-> p.Zone],
             err |-> NoErr]
       ELSE [tcpAddr |-> NoTCPAddr, err |-> Error("resolve", addr)]

\* net.InterfaceByName: the interfaces of the host.
InterfaceByName(zone) ==
    IF zone = "eth0" THEN [Index |-> 2, err |-> NoErr]
    ELSE [Index |-> 0, err |-> Error("interface", zone)]

NoSockaddr == [family |-> "none", Port |-> 0, Addr |-> <<>>, ZoneId |-> 0]

getSockaddrResolved(network, tcpAddr) ==
    CASE network \in {"tcp", "tcp4"} ->
           [sa |-> [family |-> "inet4", Port |-> tcpAddr.Port,
                    Addr |-> copy(Zeros(4), To4(tcpAddr.IP)), ZoneId |-> 0],
            soType |-> "AF_INET", err |-> NoErr]
      [] network = "tcp6" ->
           LET ifi == InterfaceByName(tcpAddr.Zone)
           IN IF tcpAddr.Zone # "" /\ ifi.err # NoErr
              THEN [sa |-> NoSockaddr, soType |-> "-1", err |-> ifi.err]
              ELSE [sa |-> [family |-> "inet6", Port |-> tcpAddr.Port,
                            Addr |-> copy(Zeros(16), To16(tcpAddr.IP)),
                            ZoneId |-> IF tcpAddr.Zone # "" THEN ifi.Index ELSE 0],
                    soType |-> "AF_INET6", err |-> NoErr]
      [] OTHER ->
           [sa |-> NoSockaddr, soType |-> "-1",
            err |-> Error("unknown network type", network)]

\* getSockaddr without the test of the network name.
getSockaddr_nocheck(network, addr) ==
    LET r == ResolveTCPAddr(network, addr)
    IN IF r.err # NoErr
       THEN [sa |-> NoSockaddr, soType |-> "-1", err |-> r.err]
       ELSE getSockaddrResolved(network, r.tcpAddr)

getSockaddr(network, addr) ==
    IF network # "tcp" /\ network # "tcp4" /\ network # "tcp6"
    THEN [sa |-> NoSockaddr, soType |-> "-1",
          err |-> Error("unsupported network",
                        "only tcp4 and tcp6 network is supported")]
    ELSE LET r == ResolveTCPAddr(network, addr)
         IN IF r.err # NoErr
            THEN [sa |-> NoSockaddr, soType |-> "-1", err |-> r.err]
            ELSE getSockaddrResolved(network, r.tcpAddr)

\* ------------------------------------------------- platform capabilities
\* Each returns what the step did: sys says whether a system call was made,
\* err is the error it returns.  ok is the outcome of that system call.
StepResult(sys, err) == [sys |-> sys, err |-> err]

\* A defer-accept that reports the missing kernel support.
enableDeferAccept_bsd_unsupported ==
    StepResult(FALSE, [kind |-> "option", name |-> "TCP_DEFER_ACCEPT",
                       cause |-> "ENOPROTOOPT"])

\* BSD family: the four tunables do nothing and cannot fail.
enableDeferAccept_bsd == StepResult(FALSE, NoErr)
enableFastOpen_bsd == StepResult(FALSE, NoErr)
enableNoDelay_bsd == StepResult(FALSE, NoErr)
enableQuickAck_bsd == StepResult(FALSE, NoErr)
soMaxConn_bsd == [val |-> SOMAXCONN, err |-> NoErr]

\* Linux: each tunable is one setsockopt whose failure is wrapped with the
\* option's name; the backlog query reads the system-wide maximum.
enableDeferAccept_linux(ok) ==
    StepResult(TRUE, IF ok THEN NoErr ELSE Error("option", "TCP_DEFER_ACCEPT"))
enableFastOpen_linux(ok) ==
    StepResult(TRUE, IF ok THEN NoErr ELSE Error("option", "TCP_FASTOPEN"))
enableNoDelay_linux(ok) ==
    StepResult(TRUE, IF ok THEN NoErr ELSE Error("option", "TCP_NODELAY"))
enableQuickAck_linux(ok) ==
    StepResult(TRUE, IF ok THEN NoErr ELSE Error("option", "TCP_QUICKACK"))
\* The value the running kernel is set to.
SoMaxConnValues == {4096}
soMaxConn_linux(ok, v) ==
    IF ok THEN [val |-> v, err |-> NoErr]
    ELSE [val |-> -1, err |-> Error("somaxconn", "")]

\* The variant the build selects.
enableDeferAccept(p, ok) ==
    IF p = "bsd" THEN enableDeferAccept_bsd ELSE enableDeferAccept_linux(ok)
enableFastOpen(p, ok) ==
    IF p = "bsd" THEN enableFastOpen_bsd ELSE enableFastOpen_linux(ok)
enableNoDelay(p, ok) ==
    IF p = "bsd" THEN enableNoDelay_bsd ELSE enableNoDelay_linux(ok)
enableQuickAck(p, ok) ==
    IF p = "bsd" THEN enableQuickAck_bsd ELSE enableQuickAck_linux(ok)
soMaxConn(p, ok, v) ==
    IF p = "bsd" THEN soMaxConn_bsd ELSE soMaxConn_linux(ok, v)

\* ------------------------------------------------------------------- state
VARIABLES
    platform,   \* the build target, fixed for a run
    fdtab,      \* descriptor table: fd -> [sock, by]; sock = 0 means closed
    socks,      \* kernel sockets: id -> [state, family, Addr, Port, ...]
    frame,      \* one NewListener activation per call: pc, arguments, locals
    ncalls      \* calls made so far

vars == <<platform, fdtab, socks, frame, ncalls>>

ClosedFd == [sock |-> 0, by |-> 0]
\* want remembers, for the properties, the ReusePort flag of the call that
\* made the socket; nothing reads it.
FreeSock == [state |-> "free", family |-> "none", Addr |-> <<>>, Port |-> 0,
             reuseaddr |-> FALSE, reuseport |-> FALSE, want |-> FALSE]

ZeroConfig == [ReusePort |-> FALSE, DeferAccept |-> FALSE, FastOpen |-> FALSE,
               NoDelay |-> FALSE, QuickACK |-> FALSE, Backlog |-> 0]

IdleFrame == [pc |-> "idle", network |-> "", addr |-> "", cfg |-> ZeroConfig,
              sa |-> NoSockaddr, soType |-> "-1", fd |-> 0, ln |-> 0,
              backlog |-> 0, err |-> NoErr, retln |-> 0, log |-> <<>>]

Init ==
    /\ platform \in Platforms
    /\ fdtab = [n \in Fds |-> ClosedFd]
    /\ socks = [s \in Fds |-> FreeSock]
    /\ frame = [c \in Calls |-> IdleFrame]
    /\ ncalls = 0

\* ------------------------------------------------------ operating system
Min(S) == CHOOSE n \in S : \A m \in S : n <= m
FreeFds(tab) == {n \in Fds : tab[n].sock = 0}
FreeSockIds(sk) == {s \in Fds : sk[s].state = "free"}

\* close(2): the descriptor is released, also when close reports an error;
\* the socket goes with its last descriptor.
CloseFdTab(tab, n) == [tab EXCEPT ![n] = ClosedFd]
CloseSocks(tab, sk, n) ==
    LET s == tab[n].sock
    IN IF s = 0 \/ \E m \in Fds \ {n} : tab[m].sock = s THEN sk
       ELSE [sk EXCEPT ![s] = FreeSock]

IsWildcard(a) == a = Zeros(Len(a))
Overlap(x, y) ==
    /\ x.family = y.family
    /\ x.Port = y.Port
    /\ (x.Addr = y.Addr \/ IsWildcard(x.Addr) \/ IsWildcard(y.Addr))

\* EADDRINUSE: another socket holds an overlapping address and the two do not
\* both have SO_REUSEPORT.  With SO_REUSEADDR on both, Linux lets the bind
\* through while the other is not listening and refuses at listen; the BSD
\* family lets only a wildcard/specific pair through.
AddrInUse(p, sk, s, self, sa, atListen) ==
    \E t \in Fds \ {s} :
        /\ sk[t].state \in {"bound", "listening"}
        /\ Overlap(sk[t], sa)
        /\ ~(sk[t].reuseport /\ self.reuseport)
        /\ IF p = "bsd"
           THEN /\ ~atListen
                /\ ~(sk[t].reuseaddr /\ self.reuseaddr /\ sk[t].Addr # sa.Addr)
           ELSE \/ sk[t].state = "listening"
                \/ ~atListen /\ ~(sk[t].reuseaddr /\ self.reuseaddr)

\* ----------------------------------------------------------------- helpers
LogEntry(op, sys, ok, arg) == [op |-> op, sys |-> sys, ok |-> ok, arg |-> arg]
Logged(f, op, sys, ok, arg) ==
    [f EXCEPT !.log = Append(@, LogEntry(op, sys, ok, arg))]
Goto(f, to) == [f EXCEPT !.pc = to]
Fail(f, to, e) == [f EXCEPT !.pc = to, !.err = e]
SockOf(c) == fdtab[frame[c].fd].sock
AllIdle == \A c \in Calls : frame[c].pc = "idle"

\* ------------------------------------------------ NewListener (Unix build)
\* The caller enters NewListener with its arguments.
Start(c, network, addr, cfg) ==
    /\ frame[c].pc = "idle"
    /\ frame' = [frame EXCEPT ![c] =
                   [IdleFrame EXCEPT !.pc = IF platform = "windows"
                                            THEN "netListen" ELSE "getSockaddr",
                                     !.network = network, !.addr = addr,
                                     !.cfg = cfg]]
    /\ ncalls' = ncalls + 1
    /\ UNCHANGED <<platform, fdtab, socks>>

\* The address stage with its error dropped: the socket is created anyway.
GetSockaddr_ignoresError(c) ==
    /\ frame[c].pc = "getSockaddr"
    /\ LET r == getSockaddr(frame[c].network, frame[c].addr)
       IN frame' = [frame EXCEPT ![c] =
                      [@ EXCEPT !.pc = "newSocket", !.sa = r.sa,
                                !.soType = r.soType]]
    /\ UNCHANGED <<platform, fdtab, socks, ncalls>>

\* sa, soType, err := getSockaddr(network, addr)
GetSockaddr(c) ==
    /\ frame[c].pc = "getSockaddr"
    /\ LET r == getSockaddr(frame[c].network, frame[c].addr)
       IN frame' = [frame EXCEPT ![c] =
                      IF r.err # NoErr
                      THEN Fail(@, "failed", r.err)
                      ELSE [@ EXCEPT !.pc = "newSocket", !.sa = r.sa,
                                     !.soType = r.soType]]
    /\ UNCHANGED <<platform, fdtab, socks, ncalls>>

\* fd, err := newSocketCloexec(soType, SOCK_STREAM, IPPROTO_TCP): the lowest
\* free descriptor, naming a fresh socket; fails when the table is full or
\* the system refuses.
newSocketCloexec(c, ok) ==
    IF ok /\ FreeFds(fdtab) # {}
    THEN LET n == Min(FreeFds(fdtab))
             s == Min(FreeSockIds(socks))
         IN [fd |-> n, err |-> NoErr,
             tab |-> [fdtab EXCEPT ![n] = [sock |-> s, by |-> c]],
             sk |-> [socks EXCEPT ![s] =
                       [FreeSock EXCEPT !.state = "new",
                                        !.family = IF frame[c].soType = "AF_INET"
                                                   THEN "inet4" ELSE "inet6"]]]
    ELSE [fd |-> 0, err |-> Error("socket", ""), tab |-> fdtab, sk |-> socks]

NewSocket(c) ==
    /\ frame[c].pc = "newSocket"
    /\ \E ok \in BOOLEAN :
         LET r == newSocketCloexec(c, ok)
         IN /\ frame' = [frame EXCEPT ![c] =
                           IF r.err # NoErr
                           THEN Fail(@, "failed", r.err)
                           ELSE [@ EXCEPT !.pc = "reuseAddr", !.fd = r.fd]]
            /\ fdtab' = r.tab
            /\ socks' = IF r.err # NoErr THEN r.sk
                        ELSE [r.sk EXCEPT ![r.tab[r.fd].sock].want =
                                            frame[c].cfg.ReusePort]
    /\ UNCHANGED <<platform, ncalls>>

\* ------------------------------------------------------------- fdSetup
\* One step of fdSetup that was selected: it ran with result r; on an error
\* fdSetup returns it, otherwise control moves on.  set names the socket
\* flag a successful system call turns on ("" for none).
FdSetupStep(c, op, r, set, next) ==
    /\ frame' = [frame EXCEPT ![c] =
                   IF r.err # NoErr
                   THEN Fail(Logged(@, op, r.sys, FALSE, 0), "closeFd", r.err)
                   ELSE Goto(Logged(@, op, r.sys, TRUE, 0), next)]
    /\ socks' = IF r.err = NoErr /\ r.sys /\ set # ""
                THEN [socks EXCEPT ![SockOf(c)] =
                        IF set = "reuseaddr" THEN [@ EXCEPT !.reuseaddr = TRUE]
                        ELSE [@ EXCEPT !.reuseport = TRUE]]
                ELSE socks
    /\ UNCHANGED <<platform, fdtab, ncalls>>

\* A step whose flag is off is passed over.
FdSetupSkip(c, next) ==
    /\ frame' = [frame EXCEPT ![c] = Goto(@, next)]
    /\ UNCHANGED <<platform, fdtab, socks, ncalls>>

\* syscall.SetsockoptInt and the error it is wrapped in.
SetsockoptInt(ok, name) ==
    StepResult(TRUE, IF ok THEN NoErr ELSE Error("option", name))

SetReuseAddr(c) ==
    /\ frame[c].pc = "reuseAddr"
    /\ \E ok \in BOOLEAN :
         FdSetupStep(c, "SO_REUSEADDR", SetsockoptInt(ok, "SO_REUSEADDR"),
                     "reuseaddr", "tcpNoDelay")

SetTCPNoDelay(c) ==
    /\ frame[c].pc = "tcpNoDelay"
    /\ \E ok \in BOOLEAN :
         FdSetupStep(c, "TCP_NODELAY", SetsockoptInt(ok, "TCP_NODELAY"),
                     "", "reusePort")

\* SO_REUSEPORT never set.
SetReusePort_never(c) ==
    /\ frame[c].pc = "reusePort"
    /\ FdSetupSkip(c, "deferAccept")

\* SO_REUSEPORT whose failure is ignored.
SetReusePort_ignoresError(c) ==
    /\ frame[c].pc = "reusePort"
    /\ IF frame[c].cfg.ReusePort
       THEN \E ok \in BOOLEAN :
              /\ frame' = [frame EXCEPT ![c] =
                             Goto(Logged(@, "SO_REUSEPORT", TRUE, ok, 0),
                                  "deferAccept")]
              /\ socks' = IF ok THEN [socks EXCEPT ![SockOf(c)].reuseport = TRUE]
                          ELSE socks
              /\ UNCHANGED <<platform, fdtab, ncalls>>
       ELSE FdSetupSkip(c, "deferAccept")

\* SO_REUSEPORT set whatever the flag says.
SetReusePort_unconditional(c) ==
    /\ frame[c].pc = "reusePort"
    /\ \E ok \in BOOLEAN :
         FdSetupStep(c, "SO_REUSEPORT", SetsockoptInt(ok, "SO_REUSEPORT"),
                     "reuseport", "deferAccept")

SetReusePort(c) ==
    /\ frame[c].pc = "reusePort"
    /\ IF frame[c].cfg.ReusePort
       THEN \E ok \in BOOLEAN :
              FdSetupStep(c, "SO_REUSEPORT", SetsockoptInt(ok, "SO_REUSEPORT"),
                          "reuseport", "deferAccept")
       ELSE FdSetupSkip(c, "deferAccept")

\* A platform tunable: the outcome of its system call matters only when it
\* makes one.
Outcomes(p) == IF p = "bsd" THEN {TRUE} ELSE BOOLEAN

DeferAccept(c) ==
    /\ frame[c].pc = "deferAccept"
    /\ IF frame[c].cfg.DeferAccept
       THEN \E ok \in Outcomes(platform) :
              FdSetupStep(c, "enableDeferAccept",
                          enableDeferAccept(platform, ok), "", "fastOpen")
       ELSE FdSetupSkip(c, "fastOpen")

FastOpen(c) ==
    /\ frame[c].pc = "fastOpen"
    /\ IF frame[c].cfg.FastOpen
       THEN \E ok \in Outcomes(platform) :
              FdSetupStep(c, "enableFastOpen",
                          enableFastOpen(platform, ok), "", "noDelay")
       ELSE FdSetupSkip(c, "noDelay")

NoDelay(c) ==
    /\ frame[c].pc = "noDelay"
    /\ IF frame[c].cfg.NoDelay
       THEN \E ok \in Outcomes(platform) :
              FdSetupStep(c, "enableNoDelay",
                          enableNoDelay(platform, ok), "", "quickAck")
       ELSE FdSetupSkip(c, "quickAck")

QuickAck(c) ==
    /\ frame[c].pc = "quickAck"
    /\ IF frame[c].cfg.QuickACK
       THEN \E ok \in Outcomes(platform) :
              FdSetupStep(c, "enableQuickAck",
                          enableQuickAck(platform, ok), "", "bind")
       ELSE FdSetupSkip(c, "bind")

\* A bind that leaves fdSetup at once, as if the socket were listening.
Bind_returns(c) ==
    /\ frame[c].pc = "bind"
    /\ socks' = [socks EXCEPT ![SockOf(c)] =
                   [@ EXCEPT !.state = "bound", !.Addr = frame[c].sa.Addr,
                             !.Port = frame[c].sa.Port]]
    /\ frame' = [frame EXCEPT ![c] =
                   Goto(Logged(@, "bind", TRUE, TRUE, 0), "fileListener")]
    /\ UNCHANGED <<platform, fdtab, ncalls>>

\* syscall.Bind(fd, sa)
Bind(c) ==
    /\ frame[c].pc = "bind"
    /\ LET s == SockOf(c)
           inUse == AddrInUse(platform, socks, s, socks[s], frame[c].sa, FALSE)
       IN \E ok \in BOOLEAN :
            IF ok /\ ~inUse
            THEN /\ socks' = [socks EXCEPT ![s] =
                                [@ EXCEPT !.state = "bound",
                                          !.Addr = frame[c].sa.Addr,
                                          !.Port = frame[c].sa.Port]]
                 /\ frame' = [frame EXCEPT ![c] =
                                Goto(Logged(@, "bind", TRUE, TRUE, 0), "backlog")]
            ELSE /\ socks' = socks
                 /\ frame' = [frame EXCEPT ![c] =
                                Fail(Logged(@, "bind", TRUE, FALSE, 0), "closeFd",
                                     ErrorCause("bind", frame[c].addr,
                                                IF inUse THEN "EADDRINUSE"
                                                ELSE "EACCES"))]
    /\ UNCHANGED <<platform, fdtab, ncalls>>

\* The backlog computed with the test backlog < 0.
Backlog_strict(c) ==
    /\ frame[c].pc = "backlog"
    /\ IF frame[c].cfg.Backlog < 0
       THEN \E ok \in Outcomes(platform), v \in SoMaxConnValues :
              LET r == soMaxConn(platform, ok, v)
                  sys == platform # "bsd"
              IN frame' = [frame EXCEPT ![c] =
                     IF r.err # NoErr
                     THEN Fail(Logged(@, "soMaxConn", sys, FALSE, r.val),
                               "closeFd", ErrorCause("backlog", "", r.err.kind))
                     ELSE [Logged(@, "soMaxConn", sys, TRUE, r.val)
                             EXCEPT !.pc = "listen", !.backlog = r.val]]
       ELSE frame' = [frame EXCEPT ![c] =
                        [@ EXCEPT !.pc = "listen",
                                  !.backlog = frame[c].cfg.Backlog]]
    /\ UNCHANGED <<platform, fdtab, socks, ncalls>>

\* The backlog written back into the caller's Config:
\* cfg.Backlog, err = soMaxConn()
Backlog_writesConfig(c) ==
    /\ frame[c].pc = "backlog"
    /\ IF frame[c].cfg.Backlog <= 0
       THEN \E ok \in Outcomes(platform), v \in SoMaxConnValues :
              LET r == soMaxConn(platform, ok, v)
                  sys == platform # "bsd"
              IN frame' = [frame EXCEPT ![c] =
                     IF r.err # NoErr
                     THEN Fail(Logged(@, "soMaxConn", sys, FALSE, r.val),
                               "closeFd", ErrorCause("backlog", "", r.err.kind))
                     ELSE [Logged(@, "soMaxConn", sys, TRUE, r.val)
                             EXCEPT !.pc = "listen", !.backlog = r.val,
                                    !.cfg.Backlog = r.val]]
       ELSE frame' = [frame EXCEPT ![c] =
                        [@ EXCEPT !.pc = "listen",
                                  !.backlog = frame[c].cfg.Backlog]]
    /\ UNCHANGED <<platform, fdtab, socks, ncalls>>

\* backlog := cfg.Backlog; if backlog <= 0 { backlog, err = soMaxConn() }
Backlog(c) ==
    /\ frame[c].pc = "backlog"
    /\ IF frame[c].cfg.Backlog <= 0
       THEN \E ok \in Outcomes(platform), v \in SoMaxConnValues :
              LET r == soMaxConn(platform, ok, v)
                  sys == platform # "bsd"
              IN frame' = [frame EXCEPT ![c] =
                     IF r.err # NoErr
                     THEN Fail(Logged(@, "soMaxConn", sys, FALSE, r.val),
                               "closeFd", ErrorCause("backlog", "", r.err.kind))
                     ELSE [Logged(@, "soMaxConn", sys, TRUE, r.val)
                             EXCEPT !.pc = "listen", !.backlog = r.val]]
       ELSE frame' = [frame EXCEPT ![c] =
                        [@ EXCEPT !.pc = "listen",
                                  !.backlog = frame[c].cfg.Backlog]]
    /\ UNCHANGED <<platform, fdtab, socks, ncalls>>

\* listen tried a second time after its first failure.
Listen_retries(c) ==
    /\ frame[c].pc = "listen"
    /\ LET s == SockOf(c)
           inUse == AddrInUse(platform, socks, s, socks[s], frame[c].sa, TRUE)
           failedBefore == \E i \in 1..Len(frame[c].log) :
                              frame[c].log[i].op = "listen"
       IN \E ok \in BOOLEAN :
            IF ok /\ ~inUse
            THEN /\ socks' = [socks EXCEPT ![s] = [@ EXCEPT !.state = "listening"]]
                 /\ frame' = [frame EXCEPT ![c] =
                                Goto(Logged(@, "listen", TRUE, TRUE,
                                            frame[c].backlog), "fileListener")]
            ELSE /\ socks' = socks
                 /\ frame' = [frame EXCEPT ![c] =
                                IF failedBefore
                                THEN Fail(Logged(@, "listen", TRUE, FALSE,
                                                 frame[c].backlog), "closeFd",
                                          ErrorCause("listen", frame[c].addr,
                                                     IF inUse THEN "EADDRINUSE"
                                                     ELSE "EIO"))
                                ELSE Logged(@, "listen", TRUE, FALSE,
                                            frame[c].backlog)]
    /\ UNCHANGED <<platform, fdtab, ncalls>>

\* syscall.Listen(fd, backlog); on success fdSetup returns nil
Listen(c) ==
    /\ frame[c].pc = "listen"
    /\ LET s == SockOf(c)
           inUse == AddrInUse(platform, socks, s, socks[s], frame[c].sa, TRUE)
       IN \E ok \in BOOLEAN :
            IF ok /\ ~inUse
            THEN /\ socks' = [socks EXCEPT ![s] = [@ EXCEPT !.state = "listening"]]
                 /\ frame' = [frame EXCEPT ![c] =
                                Goto(Logged(@, "listen", TRUE, TRUE,
                                            frame[c].backlog), "fileListener")]
            ELSE /\ socks' = socks
                 /\ frame' = [frame EXCEPT ![c] =
                                Fail(Logged(@, "listen", TRUE, FALSE,
                                            frame[c].backlog), "closeFd",
                                     ErrorCause("listen", frame[c].addr,
                                                IF inUse THEN "EADDRINUSE"
                                                ELSE "EIO"))]
    /\ UNCHANGED <<platform, fdtab, ncalls>>

\* The error return without the close.
CloseFd_leak(c) ==
    /\ frame[c].pc = "closeFd"
    /\ frame' = [frame EXCEPT ![c] = [@ EXCEPT !.pc = "failed", !.retln = 0]]
    /\ UNCHANGED <<platform, fdtab, socks, ncalls>>

\* if err = cfg.fdSetup(...); err != nil { syscall.Close(fd); return nil, err }
CloseFd(c) ==
    /\ frame[c].pc = "closeFd"
    /\ fdtab' = CloseFdTab(fdtab, frame[c].fd)
    /\ socks' = CloseSocks(fdtab, socks, frame[c].fd)
    /\ frame' = [frame EXCEPT ![c] =
                   [Logged(@, "close", TRUE, TRUE, frame[c].fd)
                      EXCEPT !.pc = "failed", !.retln = 0]]
    /\ UNCHANGED <<platform, ncalls>>

\* file := os.NewFile(fd, name); ln, err := net.FileListener(file): the
\* listener works on its own duplicate of the descriptor.
FileListener(c) ==
    /\ frame[c].pc = "fileListener"
    /\ \E ok \in BOOLEAN :
         IF ok /\ FreeFds(fdtab) # {}
         THEN LET n == Min(FreeFds(fdtab))
              IN /\ fdtab' = [fdtab EXCEPT ![n] = [sock |-> SockOf(c), by |-> c]]
                 /\ frame' = [frame EXCEPT ![c] =
                                [Logged(@, "FileListener", TRUE, TRUE, n)
                                   EXCEPT !.pc = "fileClose", !.ln = n]]
         ELSE /\ fdtab' = fdtab
              /\ frame' = [frame EXCEPT ![c] =
                             Fail(Logged(@, "FileListener", TRUE, FALSE, 0),
                                  "fileCloseErr", Error("filelistener", ""))]
    /\ UNCHANGED <<platform, socks, ncalls>>

\* if err != nil { file.Close(); return nil, err }
FileCloseErr(c) ==
    /\ frame[c].pc = "fileCloseErr"
    /\ fdtab' = CloseFdTab(fdtab, frame[c].fd)
    /\ socks' = CloseSocks(fdtab, socks, frame[c].fd)
    /\ frame' = [frame EXCEPT ![c] =
                   [Logged(@, "close", TRUE, TRUE, frame[c].fd)
                      EXCEPT !.pc = "failed", !.retln = 0]]
    /\ UNCHANGED <<platform, ncalls>>

\* The listener returned with the raw descriptor left open: no file.Close().
FileClose_keepsRaw(c) ==
    /\ frame[c].pc = "fileClose"
    /\ frame' = [frame EXCEPT ![c] =
                   [@ EXCEPT !.pc = "done", !.retln = frame[c].ln]]
    /\ UNCHANGED <<platform, fdtab, socks, ncalls>>

\* if err = file.Close(); err != nil {...}; return ln, nil
FileClose(c) ==
    /\ frame[c].pc = "fileClose"
    /\ fdtab' = CloseFdTab(fdtab, frame[c].fd)
    /\ socks' = CloseSocks(fdtab, socks, frame[c].fd)
    /\ \E ok \in BOOLEAN :
         frame' = [frame EXCEPT ![c] =
                     IF ok
                     THEN [Logged(@, "close", TRUE, TRUE, frame[c].fd)
                             EXCEPT !.pc = "done", !.retln = frame[c].ln]
                     ELSE Fail(Logged(@, "close", TRUE, FALSE, frame[c].fd),
                               "lnClose", Error("close", ""))]
    /\ UNCHANGED <<platform, ncalls>>

\* The cleanup closing the raw descriptor a second time, not the listener.
LnClose_closesFd(c) ==
    /\ frame[c].pc = "lnClose"
    /\ fdtab' = CloseFdTab(fdtab, frame[c].fd)
    /\ socks' = CloseSocks(fdtab, socks, frame[c].fd)
    /\ frame' = [frame EXCEPT ![c] =
                   [Logged(@, "close", TRUE, TRUE, frame[c].fd)
                      EXCEPT !.pc = "failed", !.retln = 0]]
    /\ UNCHANGED <<platform, ncalls>>

\* The cleanup returning the closed listener together with the error:
\* ln.Close(); return ln, err
LnClose_returnsListener(c) ==
    /\ frame[c].pc = "lnClose"
    /\ fdtab' = CloseFdTab(fdtab, frame[c].ln)
    /\ socks' = CloseSocks(fdtab, socks, frame[c].ln)
    /\ frame' = [frame EXCEPT ![c] =
                   [Logged(@, "close", TRUE, TRUE, frame[c].ln)
                      EXCEPT !.pc = "failed", !.retln = frame[c].ln]]
    /\ UNCHANGED <<platform, ncalls>>

\* ln.Close(); return nil, err
LnClose(c) ==
    /\ frame[c].pc = "lnClose"
    /\ fdtab' = CloseFdTab(fdtab, frame[c].ln)
    /\ socks' = CloseSocks(fdtab, socks, frame[c].ln)
    /\ frame' = [frame EXCEPT ![c] =
                   [Logged(@, "close", TRUE, TRUE, frame[c].ln)
                      EXCEPT !.pc = "failed", !.retln = 0]]
    /\ UNCHANGED <<platform, ncalls>>

\* The call has returned: its frame is gone, and what it left open (the
\* listener's descriptor) is the caller's.
Return(c) ==
    /\ frame[c].pc \in {"done", "failed"}
    /\ frame' = [frame EXCEPT ![c] = IdleFrame]
    /\ fdtab' = [n \in Fds |-> IF fdtab[n].by = c
                               THEN [fdtab[n] EXCEPT !.by = 0] ELSE fdtab[n]]
    /\ UNCHANGED <<platform, socks, ncalls>>

\* --------------------------------------------- NewListener (Windows build)
\* net.Listen(network, addr) of the standard library: a TCP or Unix-domain
\* stream listener on the address; any other network is refused.
netListen(network, addr, ok) ==
    LET r == ResolveTCPAddr(network, addr)
        s == Min(FreeSockIds(socks))
        fam == IF network \in {"unix", "unixpacket"} THEN "unix"
               ELSE IF To4(r.tcpAddr.IP) # <<>> THEN "inet4" ELSE "inet6"
        sa == [family |-> fam, Port |-> r.tcpAddr.Port,
               Addr |-> IF fam = "inet4" THEN To4(r.tcpAddr.IP) ELSE r.tcpAddr.IP]
    IN IF network \notin {"tcp", "tcp4", "tcp6", "unix", "unixpacket"}
       THEN [ok |-> FALSE, err |-> Error("netlisten", "unknown network")]
       ELSE IF fam # "unix" /\ r.err # NoErr
       THEN [ok |-> FALSE, err |-> r.err]
       ELSE IF FreeFds(fdtab) = {} \/ ~ok
       THEN [ok |-> FALSE, err |-> Error("netlisten", "listen")]
       ELSE IF AddrInUse("windows", socks, s, FreeSock, sa, FALSE)
       THEN [ok |-> FALSE, err |-> ErrorCause("netlisten", addr, "EADDRINUSE")]
       ELSE [ok |-> TRUE, err |-> NoErr, sock |-> s,
             rec |-> [FreeSock EXCEPT !.state = "listening", !.family = fam,
                                      !.Addr = sa.Addr, !.Port = sa.Port]]

\* A Windows build that honours Config.ReusePort on the listener's socket.
NetListen_reusePort(c) ==
    /\ frame[c].pc = "netListen"
    /\ \E ok \in BOOLEAN :
         LET r == netListen(frame[c].network, frame[c].addr, ok)
         IN IF r.ok
            THEN LET n == Min(FreeFds(fdtab))
                 IN /\ fdtab' = [fdtab EXCEPT ![n] = [sock |-> r.sock, by |-> c]]
                    /\ socks' = [socks EXCEPT ![r.sock] =
                                   [r.rec EXCEPT !.reuseport = frame[c].cfg.ReusePort]]
                    /\ frame' = [frame EXCEPT ![c] =
                                   [@ EXCEPT !.pc = "done", !.ln = n, !.retln = n]]
            ELSE /\ frame' = [frame EXCEPT ![c] = Fail(@, "failed", r.err)]
                 /\ UNCHANGED <<fdtab, socks>>
    /\ UNCHANGED <<platform, ncalls>>

\* return net.Listen(network, addr)
NetListen(c) ==
    /\ frame[c].pc = "netListen"
    /\ \E ok \in BOOLEAN :
         LET r == netListen(frame[c].network, frame[c].addr, ok)
         IN IF r.ok
            THEN LET n == Min(FreeFds(fdtab))
                 IN /\ fdtab' = [fdtab EXCEPT ![n] = [sock |-> r.sock, by |-> c]]
                    /\ socks' = [socks EXCEPT ![r.sock] = r.rec]
                    /\ frame' = [frame EXCEPT ![c] =
                                   [@ EXCEPT !.pc = "done", !.ln = n, !.retln = n]]
            ELSE /\ frame' = [frame EXCEPT ![c] = Fail(@, "failed", r.err)]
                 /\ UNCHANGED <<fdtab, socks>>
    /\ UNCHANGED <<platform, ncalls>>

\* ------------------------------------------------------------ specification
\* The caller makes one call after the other, with any arguments; a single
\* activation at a time lives in the first frame.
Call(c) ==
    /\ c = 1
    /\ AllIdle
    /\ ncalls < MaxCalls
    /\ \E network \in Networks, addr \in Addrs, cfg \in Config :
         Start(c, network, addr, cfg)

Next ==
    \E c \in Calls :
        \/ Call(c)
        \/ GetSockaddr(c)
        \/ NewSocket(c)
        \/ SetReuseAddr(c)
        \/ SetTCPNoDelay(c)
        \/ SetReusePort(c)
        \/ DeferAccept(c)
        \/ FastOpen(c)
        \/ NoDelay(c)
        \/ QuickAck(c)
        \/ Bind(c)
        \/ Backlog(c)
        \/ Listen(c)
        \/ CloseFd(c)
        \/ FileListener(c)
        \/ FileCloseErr(c)
        \/ FileClose(c)
        \/ LnClose(c)
        \/ Return(c)
        \/ NetListen(c)

Spec == Init /\ [][Next]_vars

\* Concurrent callers: a call may start while others run; it takes the
\* first idle frame.  The calls are on two addresses, with two Configs.
ConcInputs ==
    {[network |-> "tcp4", addr |-> "127.0.0.1:80",
      cfg |-> [ZeroConfig EXCEPT !.ReusePort = TRUE, !.Backlog = 17]],
     [network |-> "tcp6", addr |-> "[::1]:80",
      cfg |-> [ZeroConfig EXCEPT !.DeferAccept = TRUE]]}

\* The two goroutines that call NewListener at the same time.
Goroutines == {1, 2}

CallConc(c) ==
    /\ c \in Goroutines
    /\ ncalls < MaxCalls
    /\ \A d \in Calls : d < c => frame[d].pc # "idle"
    /\ \E i \in ConcInputs : Start(c, i.network, i.addr, i.cfg)

NextConc ==
    \E c \in Calls :
        \/ CallConc(c)
        \/ GetSockaddr(c)
        \/ NewSocket(c)
        \/ SetReuseAddr(c)
        \/ SetTCPNoDelay(c)
        \/ SetReusePort(c)
        \/ DeferAccept(c)
        \/ FastOpen(c)
        \/ NoDelay(c)
        \/ QuickAck(c)
        \/ Bind(c)
        \/ Backlog(c)
        \/ Listen(c)
        \/ CloseFd(c)
        \/ FileListener(c)
        \/ FileCloseErr(c)
        \/ FileClose(c)
        \/ LnClose(c)
        \/ Return(c)
        \/ NetListen(c)

SpecConc == Init /\ [][NextConc]_vars

\* A call that has been entered keeps running: each of its steps is
\* straight-line code or a system call that returns, so a step that stays
\* possible is eventually taken.  The caller is not obliged to call again.
Step(c) ==
    \/ GetSockaddr(c)
    \/ NewSocket(c)
    \/ SetReuseAddr(c)
    \/ SetTCPNoDelay(c)
    \/ SetReusePort(c)
    \/ DeferAccept(c)
    \/ FastOpen(c)
    \/ NoDelay(c)
    \/ QuickAck(c)
    \/ Bind(c)
    \/ Backlog(c)
    \/ Listen(c)
    \/ CloseFd(c)
    \/ FileListener(c)
    \/ FileCloseErr(c)
    \/ FileClose(c)
    \/ LnClose(c)
    \/ NetListen(c)

\* The calls of the fair specification: any network and address, on a Config
\* with every tunable off or with every tunable on.
FairConfigs ==
    {ZeroConfig,
     [ReusePort |-> TRUE, DeferAccept |-> TRUE, FastOpen |-> TRUE,
      NoDelay |-> TRUE, QuickACK |-> TRUE, Backlog |-> 17]}

CallFair(c) ==
    /\ c = 1
    /\ AllIdle
    /\ ncalls < MaxCalls
    /\ \E network \in Networks, addr \in Addrs, cfg \in FairConfigs :
         Start(c, network, addr, cfg)

NextFair == \E c \in Calls : CallFair(c) \/ Step(c) \/ Return(c)

SpecFair == Init /\ [][NextFair]_vars /\ \A c \in Calls : WF_vars(Step(c))

\* ------------------------------------------------------------------ claims
Unix == platform # "windows"
TCPNetworks == {"tcp", "tcp4", "tcp6"}
Terminal(c) == frame[c].pc \in {"done", "failed"}
OpenedBy(c) == {n \in Fds : fdtab[n].sock # 0 /\ fdtab[n].by = c}

\* C1: when a call of the Unix build has created its raw socket and then
\* returns an error, no descriptor the call opened is still open.
C1_NoLeakOnError ==
    \A c \in Calls :
        Unix /\ frame[c].pc = "failed" /\ frame[c].fd # 0 => OpenedBy(c) = {}

\* A call failed at bind because the address was in use, after its socket
\* was created.
C1_Witness ==
    \E c \in Calls :
        /\ Unix /\ frame[c].pc = "failed" /\ frame[c].fd # 0
        /\ frame[c].err.kind = "bind" /\ frame[c].err.cause = "EADDRINUSE"

\* The error of a refused network: getSockaddr's, or on the Windows build
\* whatever error net.Listen gives.
UnsupportedNetworkError(e) ==
    \/ e.kind = "unsupported network"
    \/ e.kind = "netlisten"

\* C2: on every build, a call whose network is not tcp, tcp4 or tcp6 opens
\* no descriptor and ends in an unsupported-network error.
C2_UnsupportedNetworkRejected ==
    \A c \in Calls :
        frame[c].pc # "idle" /\ frame[c].network \notin TCPNetworks =>
            /\ OpenedBy(c) = {}
            /\ Terminal(c) =>
                 /\ frame[c].pc = "failed"
                 /\ UnsupportedNetworkError(frame[c].err)

Opt(flag, op) == IF flag THEN <<op>> ELSE <<>>
ExpectedSteps(cfg) ==
    <<"SO_REUSEADDR", "TCP_NODELAY">>
      \o Opt(cfg.ReusePort, "SO_REUSEPORT")
      \o Opt(cfg.DeferAccept, "enableDeferAccept")
      \o Opt(cfg.FastOpen, "enableFastOpen")
      \o Opt(cfg.NoDelay, "enableNoDelay")
      \o Opt(cfg.QuickACK, "enableQuickAck")
      \o <<"bind">>
StepOps ==
    {"SO_REUSEADDR", "TCP_NODELAY", "SO_REUSEPORT", "enableDeferAccept",
     "enableFastOpen", "enableNoDelay", "enableQuickAck", "bind"}
IsStep(e) == e.op \in StepOps
StepsTaken(c) == SelectSeq(frame[c].log, IsStep)
PastBind(c) ==
    frame[c].pc \in {"backlog", "listen", "fileListener", "fileClose",
                     "fileCloseErr", "lnClose", "done"}

\* C4: the option steps a call has taken, followed by bind, are the first
\* steps of: SO_REUSEADDR, TCP_NODELAY, then SO_REUSEPORT, defer-accept,
\* fast-open, no-delay, quick-ack for exactly the flags that are set, then
\* bind; each step started only after all before it succeeded, and a call
\* that got past bind has taken them all.
C4_OptionOrder ==
    \A c \in Calls :
        Unix =>
            LET l == StepsTaken(c)
                e == ExpectedSteps(frame[c].cfg)
            IN /\ Len(l) <= Len(e)
               /\ \A i \in 1..Len(l) :
                    /\ l[i].op = e[i]
                    /\ i < Len(l) => l[i].ok
               /\ PastBind(c) => Len(l) = Len(e) /\ l[Len(l)].ok

\* A call with all five flags set has bound.
C4_Witness ==
    \E c \in Calls :
        /\ Unix /\ frame[c].pc = "backlog"
        /\ frame[c].cfg.ReusePort /\ frame[c].cfg.DeferAccept
        /\ frame[c].cfg.FastOpen /\ frame[c].cfg.NoDelay /\ frame[c].cfg.QuickACK
        /\ Len(StepsTaken(c)) = 8

\* The stage of the call in a frame.  While the error return is cleaning
\* up, the call is still in the stage whose step failed.
Stage(f) ==
    CASE f.pc = "idle" -> "NoCall"
      [] f.pc = "getSockaddr" -> "Start"
      [] f.pc = "newSocket" -> "Resolved"
      [] f.pc \in {"reuseAddr", "tcpNoDelay", "reusePort", "deferAccept",
                   "fastOpen", "noDelay", "quickAck"} -> "SocketCreated"
      [] f.pc = "bind" -> "OptionsApplied"
      [] f.pc \in {"backlog", "listen"} -> "Bound"
      [] f.pc \in {"fileListener", "fileClose", "fileCloseErr", "lnClose"} ->
           "Listening"
      [] f.pc = "closeFd" ->
           (CASE f.err.kind = "option" -> "SocketCreated"
              [] f.err.kind = "bind" -> "OptionsApplied"
              [] OTHER -> "Bound")
      [] f.pc = "done" -> "Delivered"
      [] f.pc = "failed" -> "Failed"
      [] OTHER -> "Unknown"

StageOrder ==
    <<"Start", "Resolved", "SocketCreated", "OptionsApplied", "Bound",
      "Listening", "Delivered">>

StageStep(c) ==
    LET s == Stage(frame[c])
        t == Stage(frame'[c])
    IN \/ t = s
       \/ \E i \in 1..(Len(StageOrder) - 1) :
            s = StageOrder[i] /\ t = StageOrder[i + 1]
       \/ /\ s \notin {"Delivered", "Failed", "NoCall"}
          /\ t = "Failed"
          /\ \A n \in Fds : fdtab'[n].sock # 0 => fdtab'[n].by # c
       \/ s \in {"Delivered", "Failed"} /\ t = "NoCall"
       \/ s = "NoCall" /\ t = "Start"

\* C5: every step of a Unix-build call keeps its stage, moves it to the next
\* stage of Start, Resolved, SocketCreated, OptionsApplied, Bound, Listening,
\* Delivered, or moves it to Failed with no descriptor of the call open;
\* from Delivered and Failed the call only returns.
C5_StageMachine == [][Unix => \A c \in Calls : StageStep(c)]_vars

\* A call was delivered.
C5_Witness ==
    \E c \in Calls :
        /\ Unix /\ frame[c].pc = "done"
        /\ frame[c].retln # 0 /\ socks[fdtab[frame[c].retln].sock].state = "listening"

LogHas(c, op) == \E i \in 1..Len(frame[c].log) : frame[c].log[i].op = op
LogEntryOf(c, op) ==
    frame[c].log[CHOOSE i \in 1..Len(frame[c].log) : frame[c].log[i].op = op]

\* C6: listen is passed Config.Backlog when that is positive and otherwise
\* the value soMaxConn() returned (SOMAXCONN on the BSD family); soMaxConn
\* is called only when Config.Backlog <= 0, and when it fails the call ends
\* with the backlog error and listen is not called.
C6_Backlog ==
    \A c \in Calls :
        Unix =>
            /\ LogHas(c, "listen") =>
                 IF frame[c].cfg.Backlog > 0
                 THEN LogEntryOf(c, "listen").arg = frame[c].cfg.Backlog
                 ELSE /\ LogHas(c, "soMaxConn")
                      /\ LogEntryOf(c, "soMaxConn").ok
                      /\ LogEntryOf(c, "listen").arg = LogEntryOf(c, "soMaxConn").arg
                      /\ LogEntryOf(c, "listen").arg > 0
                      /\ platform = "bsd" => LogEntryOf(c, "listen").arg = SOMAXCONN
            /\ LogHas(c, "soMaxConn") => frame[c].cfg.Backlog <= 0
            /\ LogHas(c, "soMaxConn") /\ ~LogEntryOf(c, "soMaxConn").ok =>
                 /\ ~LogHas(c, "listen")
                 /\ frame[c].pc \in {"closeFd", "failed"}
                 /\ frame[c].err.kind = "backlog"
            /\ PastBind(c) /\ frame[c].pc # "backlog" /\ frame[c].cfg.Backlog <= 0
                 => LogHas(c, "soMaxConn")

\* A call with a negative Config.Backlog listens with the platform's value.
C6_Witness ==
    \E c \in Calls :
        /\ Unix /\ frame[c].cfg.Backlog < 0 /\ frame[c].pc = "fileListener"
        /\ LogEntryOf(c, "listen").arg \in SoMaxConnValues \cup {SOMAXCONN}
        /\ LogEntryOf(c, "listen").arg = LogEntryOf(c, "soMaxConn").arg

\* A listening socket the caller holds from an earlier call, on the very
\* socket address sa.
CallerListener(t) ==
    /\ socks[t].state = "listening"
    /\ \E n \in Fds : fdtab[n].sock = t /\ fdtab[n].by = 0
SameAddr(t, sa) ==
    socks[t].family = sa.family /\ socks[t].Addr = sa.Addr /\ socks[t].Port = sa.Port
Resolved(c) == frame[c].sa.family # "none"

C7_SecondCall ==
    \A c \in Calls, t \in Fds :
        Unix /\ Resolved(c) /\ CallerListener(t) /\ SameAddr(t, frame[c].sa) =>
            /\ frame[c].cfg.ReusePort /\ socks[t].want =>
                 frame[c].err.cause # "EADDRINUSE"
            /\ ~frame[c].cfg.ReusePort /\ ~socks[t].want =>
                 /\ ~PastBind(c)
                 /\ LogHas(c, "bind") => /\ frame[c].err.kind = "bind"
                                         /\ frame[c].err.cause = "EADDRINUSE"
                 /\ frame[c].pc = "failed" => OpenedBy(c) = {}

C7_FirstStays ==
    \A n \in Fds :
        fdtab[n].sock # 0 /\ fdtab[n].by = 0 =>
            /\ fdtab'[n] = fdtab[n]
            /\ socks'[fdtab[n].sock] = socks[fdtab[n].sock]

\* C7: while the caller holds a listener from an earlier call, a further
\* Unix-build call on the same socket address is never refused for the
\* address being in use when both calls had ReusePort set; when neither
\* had, its bind fails with the address in use, it never gets past bind and
\* fails with nothing of its own left open; and no step of a call changes a
\* descriptor or socket the caller holds.
C7_ReusePort == [](C7_SecondCall) /\ [][Unix => C7_FirstStays]_vars

\* The second of two calls with ReusePort on one address was delivered.
C7_Witness ==
    \E c \in Calls, t \in Fds :
        /\ Unix /\ frame[c].pc = "done" /\ frame[c].cfg.ReusePort
        /\ CallerListener(t) /\ SameAddr(t, frame[c].sa) /\ socks[t].want
        /\ fdtab[frame[c].retln].sock # t

TunableOps ==
    {"enableDeferAccept", "enableFastOpen", "enableNoDelay", "enableQuickAck"}
IsSysCall(e) == e.sys /\ e.op # "close"
SysCalls(c) == SelectSeq(frame[c].log, IsSysCall)
\* The system calls of a call, in order, when the four tunables are left out.
SysCallsWithoutTunables(cfg) ==
    <<"SO_REUSEADDR", "TCP_NODELAY">> \o Opt(cfg.ReusePort, "SO_REUSEPORT")
      \o <<"bind", "listen", "FileListener">>

\* C8: on the BSD family the four tunables make no system call and return
\* no error, so the system calls a call makes are those of the same Config
\* with the four flags off, and no call fails with a tunable's error.
C8_TunablesNoOp ==
    \A c \in Calls :
        platform = "bsd" =>
            /\ \A i \in 1..Len(frame[c].log) :
                 frame[c].log[i].op \in TunableOps =>
                     frame[c].log[i].ok /\ ~frame[c].log[i].sys
            /\ LET l == SysCalls(c)
                   e == SysCallsWithoutTunables(frame[c].cfg)
               IN /\ Len(l) <= Len(e)
                  /\ \A i \in 1..Len(l) : l[i].op = e[i]
            /\ frame[c].err.kind = "option" =>
                 frame[c].err.name \in {"SO_REUSEADDR", "TCP_NODELAY", "SO_REUSEPORT"}
                   /\ frame[c].err.cause = ""

\* A BSD call with the four tunables requested was delivered.
C8_Witness ==
    \E c \in Calls :
        /\ platform = "bsd" /\ frame[c].pc = "done"
        /\ frame[c].cfg.DeferAccept /\ frame[c].cfg.FastOpen
        /\ frame[c].cfg.NoDelay /\ frame[c].cfg.QuickACK

RequestedOps == TunableOps \cup {"SO_REUSEPORT"}
OptionName(op) ==
    CASE op = "SO_REUSEPORT" -> "SO_REUSEPORT"
      [] op = "enableDeferAccept" -> "TCP_DEFER_ACCEPT"
      [] op = "enableFastOpen" -> "TCP_FASTOPEN"
      [] op = "enableNoDelay" -> "TCP_NODELAY"
      [] op = "enableQuickAck" -> "TCP_QUICKACK"
      [] OTHER -> ""

\* C9: when a requested option step fails, nothing but the close of the
\* descriptor follows it, and the call fails with the error that names that
\* option and returns no listener.
C9_RequestedOptionFailure ==
    \A c \in Calls :
        Unix =>
            \A i \in 1..Len(frame[c].log) :
                frame[c].log[i].op \in RequestedOps /\ ~frame[c].log[i].ok =>
                    /\ \A j \in (i + 1)..Len(frame[c].log) :
                         frame[c].log[j].op = "close"
                    /\ frame[c].pc \in {"closeFd", "failed"}
                    /\ frame[c].err.kind = "option"
                    /\ frame[c].err.name = OptionName(frame[c].log[i].op)
                    /\ frame[c].retln = 0

\* A call failed because SO_REUSEPORT could not be set.
C9_Witness ==
    \E c \in Calls :
        /\ Unix /\ frame[c].pc = "failed" /\ frame[c].cfg.ReusePort
        /\ frame[c].err = Error("option", "SO_REUSEPORT")

FamilyOf(ip) == IF To4(ip) # <<>> THEN "inet4" ELSE "inet6"

\* C10: for a tcp, tcp4 or tcp6 call whose address resolves, the socket
\* address given to bind has the family, the IP and the port of the
\* resolved address.
C10_BindsResolvedAddress ==
    \A c \in Calls :
        Unix /\ frame[c].network \in TCPNetworks /\ LogHas(c, "bind") =>
            LET a == ResolveTCPAddr(frame[c].network, frame[c].addr).tcpAddr
            IN /\ frame[c].sa.family = FamilyOf(a.IP)
               /\ To16(frame[c].sa.Addr) = To16(a.IP)
               /\ frame[c].sa.Port = a.Port

\* The call whose step this is.
Acting(c) == frame'[c] # frame[c]
OwnedOpen(c, n) == n \in Fds /\ fdtab[n].sock # 0 /\ fdtab[n].by = c
UsesFd(c) ==
    frame[c].pc \in {"reuseAddr", "tcpNoDelay", "reusePort", "deferAccept",
                     "fastOpen", "noDelay", "quickAck", "bind", "backlog",
                     "listen", "closeFd", "fileListener", "fileCloseErr",
                     "fileClose"}
CloseCount(c, n) ==
    Cardinality({i \in 1..Len(frame[c].log) :
                   frame[c].log[i].op = "close" /\ frame[c].log[i].arg = n})

C11_UsesOwn ==
    \A c \in Calls :
        Unix =>
            /\ UsesFd(c) => OwnedOpen(c, frame[c].fd)
            /\ frame[c].pc \in {"fileClose", "lnClose"} => OwnedOpen(c, frame[c].ln)
            /\ \A n \in Fds : CloseCount(c, n) <= 1

C11_OthersUntouched ==
    \A c \in Calls, n \in Fds :
        Acting(c) /\ fdtab[n].sock # 0 /\ fdtab[n].by # c =>
            /\ fdtab'[n] = fdtab[n]
            /\ socks'[fdtab[n].sock] = socks[fdtab[n].sock]

\* C11: in every interleaving of concurrent calls, the descriptor a call
\* works on and the descriptors it closes are open descriptors it created
\* itself, it closes none twice, and a step of one call changes no
\* descriptor or socket that another call or the caller holds.
C11_OwnDescriptorOnly == [](C11_UsesOwn) /\ [][C11_OthersUntouched]_vars

\* A call works on a descriptor number that a failed call, not yet
\* returned, had and closed.
C11_Witness ==
    \E c \in Calls, d \in Calls :
        /\ c # d /\ Unix
        /\ frame[d].pc = "failed" /\ frame[d].fd # 0
        /\ frame[c].fd = frame[d].fd /\ UsesFd(c)
        /\ CloseCount(d, frame[d].fd) = 1

\* ------------------------------------------------------------------- C12
\* The caller's Config as a call holds it: cfg is the receiver of
\* NewListener and of fdSetup, which only read its fields.
InCall(c) == frame[c].pc # "idle"

ConfigKept ==
    \A c \in Calls :
        InCall(c) /\ frame'[c].pc # "idle" => frame'[c].cfg = frame[c].cfg

\* C12: no step of a call, on a successful or a failed path, changes any
\* field of the Config the call was made on; from the moment the call starts
\* until it has returned, the Config is the one the caller passed.
C12_ConfigUnmodified == [][ConfigKept]_vars

\* A call that has succeeded on a Config whose Backlog asks for the system
\* default: the pipeline computed a backlog of its own and the Config still
\* holds the caller's value.
C12_Witness ==
    \E c \in Calls :
        /\ Unix
        /\ frame[c].pc = "done"
        /\ frame[c].cfg.Backlog <= 0
        /\ frame[c].backlog > 0
        /\ frame[c].cfg.ReusePort

\* ------------------------------------------------------------------- C13
\* The step a Windows call takes is a step of net.Listen on the call's
\* network and address: it delivers the listener net.Listen made, or fails
\* with net.Listen's error and leaves descriptors and sockets as they were.
NetListenStep(c) ==
    \E ok \in BOOLEAN :
        LET r == netListen(frame[c].network, frame[c].addr, ok)
        IN IF r.ok
           THEN /\ frame'[c].pc = "done"
                /\ frame'[c].err = NoErr
                /\ frame'[c].retln \in Fds
                /\ fdtab[frame'[c].retln].sock = 0
                /\ fdtab'[frame'[c].retln].sock = r.sock
                /\ socks' = [socks EXCEPT ![r.sock] = r.rec]
                /\ \A n \in Fds \ {frame'[c].retln} : fdtab'[n] = fdtab[n]
           ELSE /\ frame'[c].pc = "failed"
                /\ frame'[c].err = r.err
                /\ frame'[c].retln = 0
                /\ fdtab' = fdtab
                /\ socks' = socks

C13_Refines ==
    \A c \in Calls :
        platform = "windows" /\ InCall(c) /\ frame'[c] # frame[c]
        /\ frame'[c].pc # "idle"
            => frame[c].pc = "netListen" /\ NetListenStep(c)

\* No tunable reaches the socket: the call has made no option step, holds no
\* raw descriptor and computed no backlog, and a delivered listener's socket
\* has none of the options set, whatever the Config says.
C13_NoTunables ==
    \A c \in Calls :
        platform = "windows" /\ Terminal(c) =>
            /\ frame[c].log = <<>>
            /\ frame[c].fd = 0
            /\ frame[c].backlog = 0
            /\ frame[c].pc = "done" =>
                 LET sk == socks[fdtab[frame[c].retln].sock]
                 IN /\ sk.state = "listening"
                    /\ ~sk.reuseaddr /\ ~sk.reuseport /\ ~sk.want

ResolutionFailed(c) ==
    /\ Unix
    /\ frame[c].pc \notin {"idle", "getSockaddr"}
    /\ getSockaddr(frame[c].network, frame[c].addr).err # NoErr

C14_Returned ==
    \A c \in Calls :
        ResolutionFailed(c) =>
            /\ frame[c].pc = "failed"
            /\ frame[c].err = getSockaddr(frame[c].network, frame[c].addr).err
            /\ frame[c].err.kind \in {"unsupported network", "resolve", "interface"}
            /\ frame[c].fd = 0 /\ frame[c].ln = 0 /\ frame[c].retln = 0
            /\ frame[c].log = <<>>
            /\ OpenedBy(c) = {}

C14_NothingOpenedOrClosed ==
    \A c \in Calls :
        Unix /\ frame[c].pc = "getSockaddr" /\ frame'[c] # frame[c]
        /\ getSockaddr(frame[c].network, frame[c].addr).err # NoErr
            => fdtab' = fdtab /\ socks' = socks

\* C14: a Unix call whose address stage fails (refused network, resolution
\* error, tcp6 zone that is no interface) returns that error at once: it
\* never reaches newSocketCloexec, and it opens and closes no descriptor.
C14_ResolutionFailureBeforeSocket ==
    [](C14_Returned) /\ [][C14_NothingOpenedOrClosed]_vars

\* A tcp6 call on an address whose zone names no interface has failed.
C14_Witness ==
    \E c \in Calls :
        /\ Unix /\ frame[c].pc = "failed"
        /\ frame[c].network = "tcp6" /\ frame[c].addr = "[fe80::1%nope]:80"
        /\ frame[c].err.kind = "interface"
        /\ frame[c].fd = 0

\* ------------------------------------------------------------------- C15
\* The places of a call in the order the code passes them.
PcOrder ==
    <<"idle", "netListen", "getSockaddr", "newSocket", "reuseAddr",
      "tcpNoDelay", "reusePort", "deferAccept", "fastOpen", "noDelay",
      "quickAck", "bind", "backlog", "listen", "closeFd", "fileListener",
      "fileCloseErr", "fileClose", "lnClose", "done", "failed">>
Rank(pc) == CHOOSE i \in 1..Len(PcOrder) : PcOrder[i] = pc

\* Every step of a running call moves it forward.
C15_Forward ==
    \A c \in Calls :
        InCall(c) /\ ~Terminal(c) /\ frame'[c] # frame[c]
            => Rank(frame'[c].pc) > Rank(frame[c].pc)

\* No option step, bind, soMaxConn or listen has run twice in one call, and
\* an error is set only in a call that is on its way out.
C15_Once ==
    \A c \in Calls :
        /\ \A i, j \in 1..Len(frame[c].log) :
              i # j /\ frame[c].log[i].op # "close"
                  => frame[c].log[i].op # frame[c].log[j].op
        /\ frame[c].err # NoErr
              => frame[c].pc \in {"closeFd", "fileCloseErr", "lnClose", "failed"}
        /\ \A i \in 1..Len(frame[c].log) :
              ~frame[c].log[i].ok /\ frame[c].log[i].op # "close"
                  => /\ frame[c].err # NoErr
                     /\ \A j \in (i+1)..Len(frame[c].log) :
                           frame[c].log[j].op = "close"

\* C15: every call that has been entered reaches done (Delivered) or failed
\* (Failed); on the way each step moves forward through the pipeline, no
\* stage runs twice, and a stage that fails is the last stage the call runs.
C15_TerminatesWithoutRetry ==
    /\ \A c \in Calls : (InCall(c) ~> Terminal(c))
    /\ [](C15_Once)
    /\ [][C15_Forward]_vars

\* A call has failed at listen, having run bind and listen once each.
C15_Witness ==
    \E c \in Calls :
        /\ Unix /\ frame[c].pc = "failed"
        /\ frame[c].err.kind = "listen"
        /\ LogHas(c, "bind") /\ LogHas(c, "listen")
        /\ ~LogEntryOf(c, "listen").ok

\* ------------------------------------------------------------------- C16
\* The index of the successful step op in the call's log, 0 when there is
\* none.
OkStepAt(c, op) ==
    LET I == {i \in 1..Len(frame[c].log) :
                 frame[c].log[i].op = op /\ frame[c].log[i].ok}
    IN IF I = {} THEN 0 ELSE CHOOSE i \in I : TRUE

\* C16: a call returns a listener or an error and never both or neither:
\* with an error the listener is nil; with a nil error the listener is a
\* descriptor of a listening socket, and on the Unix build the call's bind
\* and then its listen succeeded on that socket.
C16_ListenerXorError ==
    \A c \in Calls :
        /\ frame[c].pc = "failed" => frame[c].err # NoErr /\ frame[c].retln = 0
        /\ frame[c].pc = "done" =>
             /\ frame[c].err = NoErr
             /\ frame[c].retln \in Fds
             /\ fdtab[frame[c].retln].sock # 0
             /\ socks[fdtab[frame[c].retln].sock].state = "listening"
             /\ Unix =>
                  /\ OkStepAt(c, "bind") > 0
                  /\ OkStepAt(c, "listen") > OkStepAt(c, "bind")
                  /\ socks[fdtab[frame[c].retln].sock].Port = frame[c].sa.Port

\* A call has failed after net.FileListener had made the listener: the
\* close of the raw descriptor failed, and the listener is not returned.
C16_Witness ==
    \E c \in Calls :
        /\ Unix /\ frame[c].pc = "failed"
        /\ frame[c].ln # 0 /\ frame[c].retln = 0
        /\ frame[c].err.kind = "close"
        /\ OkStepAt(c, "listen") > 0

\* ------------------------------------------------------------------- C17
\* The index of the close of descriptor n in the call's log, 0 when there
\* is none.
CloseAt(c, n) ==
    LET I == {i \in 1..Len(frame[c].log) :
                 frame[c].log[i].op = "close" /\ frame[c].log[i].arg = n}
    IN IF I = {} THEN 0 ELSE CHOOSE i \in I : TRUE

\* C17: when a Unix call has delivered a listener, its raw descriptor was
\* closed after net.FileListener made the listener's duplicate, and the one
\* descriptor the call leaves open is the listener's; when the close of the
\* raw descriptor fails, the listener's descriptor is closed after it, the
\* call leaves nothing open and returns the close error without a listener.
C17_HandOff ==
    \A c \in Calls :
        Unix =>
            /\ frame[c].pc = "done" =>
                 /\ frame[c].retln = frame[c].ln
                 /\ frame[c].ln # frame[c].fd
                 /\ fdtab[frame[c].fd].sock = 0
                 /\ OpenedBy(c) = {frame[c].ln}
                 /\ OkStepAt(c, "FileListener") > 0
                 /\ CloseAt(c, frame[c].fd) > OkStepAt(c, "FileListener")
                 /\ frame[c].log[CloseAt(c, frame[c].fd)].ok
                 /\ CloseAt(c, frame[c].ln) = 0
            /\ frame[c].pc = "failed" /\ frame[c].err.kind = "close" =>
                 /\ frame[c].retln = 0
                 /\ OpenedBy(c) = {}
                 /\ CloseAt(c, frame[c].fd) > OkStepAt(c, "FileListener")
                 /\ ~frame[c].log[CloseAt(c, frame[c].fd)].ok
                 /\ CloseAt(c, frame[c].ln) > CloseAt(c, frame[c].fd)
            /\ frame[c].pc = "lnClose" => frame[c].err.kind = "close"

\* A call has delivered its listener on the second descriptor it opened, the
\* first one being closed again.
C17_Witness ==
    \E c \in Calls :
        /\ Unix /\ frame[c].pc = "done"
        /\ frame[c].fd # 0 /\ fdtab[frame[c].fd].sock = 0
        /\ frame[c].retln # frame[c].fd
        /\ fdtab[frame[c].retln].by = c

====
